---------------------------- MODULE Spec2Model ----------------------------
(***************************************************************************)
(* Model of src/src/parallel-prefix-sum.c (and of its twin                 *)
(* src/unnamed/part_001, which differs only in identifier spelling and     *)
(* comments): main, sequentialprefixsum and the three-phase, barrier       *)
(* synchronised parallelprefixsum.                                         *)
(*                                                                         *)
(* Array indices are the C indices 0 .. NITEMS-1.  Every statement of a    *)
(* worker that touches the array is one step; every array access is        *)
(* recorded in acc as <<thread, epoch, index, kind>>, where epoch is the   *)
(* number of barrier waits the thread has returned from.                   *)
(***************************************************************************)
EXTENDS Integers, Sequences, FiniteSets, Bags, TLC

VARIABLES
    NITEMS,      \* -DNITEMS: the array length (compile-time constant)
    NTHREADS,    \* -DNTHREADS: the number of worker threads
    input,       \* the values rand()%5 hands out, by index
    mpc,         \* main thread: position in main / parallelprefixsum
    mi,          \* main thread: loop variable i of parallelprefixsum
    arr1,        \* main's arr1 (sequential copy); <<>> while unallocated
    arr2,        \* main's arr2 = the workers' data; <<>> while unallocated
    threadargs,  \* the arg_pack table; <<>> before it is filled
    barr,        \* pthread_barrier_t barr
    tpc,         \* per worker: position in threadfunction
    ti,          \* per worker: the loop variable i of the running helper
    tprev,       \* per worker: prev_final_val of updatelocalvalues
    tgen,        \* per worker: barrier generation seen when it blocked
    below,       \* the word in front of arr2 (data[-1]): <<>> until touched, then <<v>>
    sem,         \* chained-handoff variant: one counting semaphore per worker
    failed,      \* the allocation for which malloc returned NULL, or "none"
    nullacc,     \* whether an access through a NULL pointer was performed
    acc,         \* bag of array accesses <<thread, epoch, index, kind>>
    result       \* what main printed after checkresult

vars == <<NITEMS, NTHREADS, input, mpc, mi, arr1, arr2, threadargs, barr,
          tpc, ti, tprev, tgen, below, sem, failed, nullacc, acc, result>>

---------------------------------------------------------------------------
(* Bounds of the model *)

MaxN == 4
MaxW == 3
MaxVal == 1

(* Program constants *)

MAX_ITEMS == 10000000
MAX_THREADS == 32
RAND_MOD == 5

\* the largest value of the arrays' element type, a 32-bit signed int
INT_MAX == (2^30 - 1) + 2^30

Min(a, b) == IF a < b THEN a ELSE b

\* The configurations explored: the small ones, and one beyond each limit
\* that main checks.
ItemCounts == (1 .. MaxN) \cup {MAX_ITEMS + 1}
ThreadCounts == (1 .. MaxW) \cup {MAX_THREADS + 1}

\* rand() % 5, cut to the model's value bound
Values == 0 .. Min(MaxVal, RAND_MOD - 1)

\* What the memory in front of the array may hold when it is first read
Garbage == Values

Threads == 0 .. (NTHREADS - 1)
Indices == 0 .. (NITEMS - 1)
InBounds(i) == i \in Indices

---------------------------------------------------------------------------
(* Compile-time constants and the partition *)

CELLS_PER_THREAD == NITEMS \div NTHREADS

REMAINDER_OF_DIV == NITEMS % NTHREADS

\* threadargs[i].start_index
StartIndex(i) == i * CELLS_PER_THREAD

\* faulty variant: the last chunk does not take the remainder
EndIndex_NoRemainder(i) == (i + 1) * CELLS_PER_THREAD - 1

\* threadargs[i].end_index (inclusive), after the adjustment of the last one
EndIndex(i) ==
    IF i = NTHREADS - 1
    THEN (i + 1) * CELLS_PER_THREAD - 1 + REMAINDER_OF_DIV
    ELSE (i + 1) * CELLS_PER_THREAD - 1

\* the loop at lines 180-188
PackArgs ==
    [i \in Threads |->
        [id |-> i, start_index |-> StartIndex(i), end_index |-> EndIndex(i)]]

\* faulty variant: the first element of the next chunk is taken
CurrFinalIndex_OffByOne(i) == (i + 1) * CELLS_PER_THREAD

\* finalelementprefix's own index arithmetic for boundary i
CurrFinalIndex(i) == (i + 1) * CELLS_PER_THREAD - 1

\* faulty variant: the remainder is never added
NextFinalIndex_NoRemainder(i) == CurrFinalIndex(i) + CELLS_PER_THREAD

NextFinalIndex(i) ==
    IF i = NTHREADS - 2
    THEN CurrFinalIndex(i) + CELLS_PER_THREAD + REMAINDER_OF_DIV
    ELSE CurrFinalIndex(i) + CELLS_PER_THREAD

---------------------------------------------------------------------------
(* Pure functions *)

\* sequentialprefixsum(data, n): for (i=1; i<n; i++) data[i] += data[i-1]
RECURSIVE SeqLoop(_, _, _)
SeqLoop(data, i, n) ==
    IF i < n
    THEN SeqLoop([data EXCEPT ![i] = data[i] + data[i - 1]], i + 1, n)
    ELSE data

sequentialprefixsum(data, n) == SeqLoop(data, 1, n)

\* checkresult(correctresult, data, n)
checkresult(correctresult, data, n) ==
    IF \E i \in 0 .. (n - 1) : data[i] # correctresult[i] THEN 0 ELSE 1

\* sum of original[lo..hi], the reference the claims are stated against
RECURSIVE SumRange(_, _, _)
SumRange(f, lo, hi) == IF hi < lo THEN 0 ELSE f[hi] + SumRange(f, lo, hi - 1)

---------------------------------------------------------------------------
(* Array accesses *)

\* the number of barrier waits a worker at position p has returned from
Epoch(p) ==
    CASE p \in {"none", "p1", "waitA"} -> 0
      [] p \in {"p2", "waitB", "c2add", "c2post"} -> 1
      [] OTHER -> 2

\* The only index outside 0 .. NITEMS-1 that the program computes is -1 (the
\* word in front of the array).  Its content is not the program's to know:
\* the first access finds any value there; from then on it is memory.
Outside(S) == \E i \in S : ~InBounds(i)

BelowChoices(S) ==
    IF below # << >> THEN {below[1]}
    ELSE IF Outside(S) THEN Garbage
    ELSE {0}

\* data[i] as an rvalue, b being the content of the word in front
Load(data, i, b) == IF InBounds(i) THEN data[i] ELSE b

\* data[i] = v: the array afterwards
Store(data, i, v) == IF InBounds(i) THEN [data EXCEPT ![i] = v] ELSE data

\* the word in front after a statement that touched the indices in S and
\* stored v at index i, b being its content before
BelowAfter(S, i, v, b) ==
    IF ~InBounds(i) THEN <<v>>
    ELSE IF Outside(S) THEN <<b>>
    ELSE below

Log(t, reads, writes) ==
    acc (+) SetToBag({<<t, Epoch(tpc[t]), i, "r">> : i \in reads}
                     \cup {<<t, Epoch(tpc[t]), i, "w">> : i \in writes})

---------------------------------------------------------------------------
Init ==
    /\ NITEMS \in ItemCounts
    /\ NTHREADS \in ThreadCounts
    /\ input \in [(IF NITEMS <= MaxN THEN Indices ELSE {}) -> Values]
    /\ mpc = "check"
    /\ mi = 0
    /\ arr1 = << >>
    /\ arr2 = << >>
    /\ threadargs = << >>
    /\ barr = [threshold |-> 0, count |-> 0, gen |-> 0]
    /\ tpc = [t \in Threads |-> "none"]
    /\ ti = [t \in Threads |-> 0]
    /\ tprev = [t \in Threads |-> 0]
    /\ tgen = [t \in Threads |-> 0]
    /\ below = << >>
    /\ sem = [t \in Threads |-> 0]
    /\ failed = "none"
    /\ nullacc = FALSE
    /\ acc = EmptyBag
    /\ result = "none"

---------------------------------------------------------------------------
(* main *)

\* faulty variant: the thread count is not checked
ConfigTooLarge_ItemsOnly == NITEMS > MAX_ITEMS

\* line 206
ConfigTooLarge == (NITEMS > MAX_ITEMS) \/ (NTHREADS > MAX_THREADS)

\* lines 206-209: the diagnostic and exit(EXIT_FAILURE)
MainReject ==
    /\ mpc = "check"
    /\ ConfigTooLarge
    /\ mpc' = "exit_failure"
    /\ UNCHANGED <<NITEMS, NTHREADS, input, mi, arr1, arr2, threadargs, barr,
                   tpc, ti, tprev, tgen, acc, result, below, sem,
                   failed, nullacc>>

\* lines 212-218: both arrays allocated and filled with the same values
MainAlloc ==
    /\ mpc = "check"
    /\ ~ConfigTooLarge
    /\ arr1' = [i \in Indices |-> input[i]]
    /\ arr2' = [i \in Indices |-> input[i]]
    /\ mpc' = "seq"
    /\ UNCHANGED <<NITEMS, NTHREADS, input, mi, threadargs, barr,
                   tpc, ti, tprev, tgen, acc, result, below, sem,
                   failed, nullacc>>

\* line 223
MainSequential ==
    /\ mpc = "seq"
    /\ arr1' = sequentialprefixsum(arr1, NITEMS)
    /\ mpc' = "par_init"
    /\ UNCHANGED <<NITEMS, NTHREADS, input, mi, arr2, threadargs, barr,
                   tpc, ti, tprev, tgen, acc, result, below, sem,
                   failed, nullacc>>

\* faulty variants: the barrier is initialised for one thread too few, or
\* for one too many (as if main took part in it)
BarrierCount_OneShort == NTHREADS - 1

BarrierCount_OneMore == NTHREADS + 1

\* the count handed to pthread_barrier_init (line 171)
BarrierCount == NTHREADS

\* lines 171-188: barrier initialised, argument packs filled
ParInit ==
    /\ mpc = "par_init"
    /\ barr' = [threshold |-> BarrierCount, count |-> 0, gen |-> 0]
    /\ threadargs' = PackArgs
    /\ mi' = 0
    /\ mpc' = "create"
    /\ UNCHANGED <<NITEMS, NTHREADS, input, arr1, arr2,
                   tpc, ti, tprev, tgen, acc, result, below, sem,
                   failed, nullacc>>

\* lines 191-193: pthread_create of worker mi, which starts in
\* threadprefixsum with i = start_index + 1
ParCreate ==
    /\ mpc = "create"
    /\ failed = "none"
    /\ mi < NTHREADS
    /\ tpc' = [tpc EXCEPT ![mi] = "p1"]
    /\ ti' = [ti EXCEPT ![mi] = threadargs[mi].start_index + 1]
    /\ mi' = mi + 1
    /\ UNCHANGED <<NITEMS, NTHREADS, input, mpc, arr1, arr2, threadargs, barr,
                   tprev, tgen, acc, result, below, sem,
                   failed, nullacc>>

ParCreateDone ==
    /\ mpc = "create"
    /\ ~(mi < NTHREADS)
    /\ mi' = 0
    /\ mpc' = "join"
    /\ UNCHANGED <<NITEMS, NTHREADS, input, arr1, arr2, threadargs, barr,
                   tpc, ti, tprev, tgen, acc, result, below, sem,
                   failed, nullacc>>

\* faulty variant: the workers are not waited for
Joinable_NoWait(i) == TRUE

\* pthread_join(thread_array[i]) returns once worker i has returned
Joinable(i) == tpc[i] = "done"

\* lines 196-198
ParJoin ==
    /\ mpc = "join"
    /\ mi < NTHREADS
    /\ Joinable(mi)
    /\ mi' = mi + 1
    /\ UNCHANGED <<NITEMS, NTHREADS, input, mpc, arr1, arr2, threadargs, barr,
                   tpc, ti, tprev, tgen, acc, result, below, sem,
                   failed, nullacc>>

\* line 199: parallelprefixsum returns to main
ParReturn ==
    /\ mpc = "join"
    /\ ~(mi < NTHREADS)
    /\ mpc' = "returned"
    /\ UNCHANGED <<NITEMS, NTHREADS, input, mi, arr1, arr2, threadargs, barr,
                   tpc, ti, tprev, tgen, acc, result, below, sem,
                   failed, nullacc>>

\* lines 230-247: the comparison and its message
MainCheckResult ==
    /\ mpc = "returned"
    /\ result' = IF checkresult(arr1, arr2, NITEMS) = 1 THEN "match" ELSE "mismatch"
    /\ mpc' = "exit_ok"
    /\ UNCHANGED <<NITEMS, NTHREADS, input, mi, arr1, arr2, threadargs, barr,
                   tpc, ti, tprev, tgen, acc, below, sem,
                   failed, nullacc>>

---------------------------------------------------------------------------
(* pthread_barrier_wait(&barr) *)

\* the position a worker continues at when its wait returns
AfterBarrier(p) == IF p \in {"p1", "waitA"} THEN "p2" ELSE "p3"

Blocked(p) == IF p = "p1" THEN "waitA" ELSE "waitB"

\* faulty variant: finalelementprefix starts at boundary 1
EnterPhase_SkipFirst(t, p) == IF p = "p2" THEN 1 ELSE ti[t]

\* the loop variable a worker starts the next phase with: finalelementprefix
\* starts at i = 0
EnterPhase(t, p) == IF p = "p2" THEN 0 ELSE ti[t]

\* the call: the last arriver resets the barrier, starts a new generation
\* and goes on; any other arriver blocks
BarrierWait(t) ==
    /\ IF barr.count + 1 = barr.threshold
       THEN /\ barr' = [barr EXCEPT !.count = 0, !.gen = barr.gen + 1]
            /\ tpc' = [tpc EXCEPT ![t] = AfterBarrier(tpc[t])]
            /\ ti' = [ti EXCEPT ![t] = EnterPhase(t, AfterBarrier(tpc[t]))]
            /\ UNCHANGED tgen
       ELSE /\ barr' = [barr EXCEPT !.count = barr.count + 1]
            /\ tpc' = [tpc EXCEPT ![t] = Blocked(tpc[t])]
            /\ tgen' = [tgen EXCEPT ![t] = barr.gen]
            /\ UNCHANGED ti
    /\ UNCHANGED <<NITEMS, NTHREADS, input, mpc, mi, arr1, arr2, threadargs,
                   tprev, acc, result, below, sem,
                   failed, nullacc>>

\* faulty variant: a blocked worker may return at any time
GenerationOver_Always(t) == TRUE

\* the generation worker t blocked in has been released
GenerationOver(t) == barr.gen # tgen[t]

\* a blocked worker's wait returns once its generation is over
BarrierRelease(t) ==
    /\ mpc # "crashed"
    /\ tpc[t] \in {"waitA", "waitB"}
    /\ GenerationOver(t)
    /\ tpc' = [tpc EXCEPT ![t] = AfterBarrier(tpc[t])]
    /\ ti' = [ti EXCEPT ![t] = EnterPhase(t, AfterBarrier(tpc[t]))]
    /\ UNCHANGED <<NITEMS, NTHREADS, input, mpc, mi, arr1, arr2, threadargs,
                   barr, tprev, tgen, acc, result, below, sem,
                   failed, nullacc>>

---------------------------------------------------------------------------
(* threadfunction *)

\* faulty variant: the loop stops one element short
Phase1Continues_Exclusive(t) == ti[t] < threadargs[t].end_index

\* faulty variant: the loop runs one element past the chunk
Phase1Continues_OneMore(t) == ti[t] < threadargs[t].end_index + 2

\* the loop condition of threadprefixsum: i < end_index + 1
Phase1Continues(t) == ti[t] < threadargs[t].end_index + 1

\* Phase 1, threadprefixsum: one iteration data[i] = data[i] + data[i-1]
Phase1Step(t) ==
    /\ mpc # "crashed"
    /\ tpc[t] = "p1"
    /\ Phase1Continues(t)
    /\ \E b \in BelowChoices({ti[t], ti[t] - 1}) :
          LET v == Load(arr2, ti[t], b) + Load(arr2, ti[t] - 1, b)
          IN /\ arr2' = Store(arr2, ti[t], v)
             /\ below' = BelowAfter({ti[t], ti[t] - 1}, ti[t], v, b)
    /\ acc' = Log(t, {ti[t], ti[t] - 1}, {ti[t]})
    /\ ti' = [ti EXCEPT ![t] = ti[t] + 1]
    /\ UNCHANGED <<NITEMS, NTHREADS, input, mpc, mi, arr1, threadargs, barr,
                   tpc, tprev, tgen, result, sem,
                   failed, nullacc>>

\* line 155: threadprefixsum has returned and the worker calls the first wait
BarrierArriveA(t) ==
    /\ mpc # "crashed"
    /\ tpc[t] = "p1"
    /\ ~Phase1Continues(t)
    /\ BarrierWait(t)

\* faulty variant: every worker runs finalelementprefix
IsCoordinator_Everyone(t) == TRUE

\* line 157: who runs finalelementprefix
IsCoordinator(t) == threadargs[t].id = 0

\* faulty variant: one boundary too many
Phase2Continues_Inclusive(t) == ti[t] < NTHREADS

\* the loop condition of finalelementprefix: i < NTHREADS - 1
Phase2Continues(t) == ti[t] < NTHREADS - 1

\* Phase 2, finalelementprefix: one iteration
\* data[next_final_index] += data[curr_final_index]
Phase2Step(t) ==
    /\ mpc # "crashed"
    /\ tpc[t] = "p2"
    /\ IsCoordinator(t)
    /\ Phase2Continues(t)
    /\ LET curr == CurrFinalIndex(ti[t])
           next == NextFinalIndex(ti[t])
       IN /\ \E b \in BelowChoices({curr, next}) :
                LET v == Load(arr2, next, b) + Load(arr2, curr, b)
                IN /\ arr2' = Store(arr2, next, v)
                   /\ below' = BelowAfter({curr, next}, next, v, b)
          /\ acc' = Log(t, {curr, next}, {next})
    /\ ti' = [ti EXCEPT ![t] = ti[t] + 1]
    /\ UNCHANGED <<NITEMS, NTHREADS, input, mpc, mi, arr1, threadargs, barr,
                   tpc, tprev, tgen, result, sem,
                   failed, nullacc>>

\* faulty variant: the second wait is missing
BarrierArriveB_NoWait(t) ==
    /\ mpc # "crashed"
    /\ tpc[t] = "p2"
    /\ \/ threadargs[t].id # 0
       \/ threadargs[t].id = 0 /\ ~(ti[t] < NTHREADS - 1)
    /\ tpc' = [tpc EXCEPT ![t] = "p3"]
    /\ UNCHANGED <<NITEMS, NTHREADS, input, mpc, mi, arr1, arr2, threadargs,
                   barr, ti, tprev, tgen, below, acc, result, sem,
                   failed, nullacc>>

\* line 161: finalelementprefix has returned (worker 0) or was not called
\* (the others), and the worker calls the second wait
BarrierArriveB(t) ==
    /\ mpc # "crashed"
    /\ tpc[t] = "p2"
    /\ \/ ~IsCoordinator(t)
       \/ IsCoordinator(t) /\ ~Phase2Continues(t)
    /\ BarrierWait(t)

\* faulty variant: worker 0 runs updatelocalvalues too
HasPredecessor_Everyone(t) == TRUE

\* line 163: who runs updatelocalvalues
HasPredecessor(t) == threadargs[t].id # 0

\* line 163: worker 0 has nothing to do in Phase 3 and returns
Phase3Skip(t) ==
    /\ mpc # "crashed"
    /\ tpc[t] = "p3"
    /\ ~HasPredecessor(t)
    /\ tpc' = [tpc EXCEPT ![t] = "done"]
    /\ UNCHANGED <<NITEMS, NTHREADS, input, mpc, mi, arr1, arr2, threadargs,
                   barr, ti, tprev, tgen, acc, result, below, sem,
                   failed, nullacc>>

\* updatelocalvalues, line 135: prev_final_val = data[start_index-1]
Phase3Read(t) ==
    /\ mpc # "crashed"
    /\ tpc[t] = "p3"
    /\ HasPredecessor(t)
    /\ LET prev == threadargs[t].start_index - 1
       IN /\ \E b \in BelowChoices({prev}) :
                /\ tprev' = [tprev EXCEPT ![t] = Load(arr2, prev, b)]
                /\ below' = IF InBounds(prev) THEN below ELSE <<b>>
          /\ acc' = Log(t, {prev}, {})
    /\ ti' = [ti EXCEPT ![t] = threadargs[t].start_index]
    /\ tpc' = [tpc EXCEPT ![t] = "p3loop"]
    /\ UNCHANGED <<NITEMS, NTHREADS, input, mpc, mi, arr1, arr2, threadargs,
                   barr, tgen, result, sem,
                   failed, nullacc>>

\* faulty variant: the chunk's last element is updated too
Phase3Continues_Inclusive(t) == ti[t] < threadargs[t].end_index + 1

\* the bound of updatelocalvalues' loop: i < end_index
Phase3Continues(t) == ti[t] < threadargs[t].end_index

\* updatelocalvalues, lines 137-139: one iteration data[i] += prev_final_val
Phase3Step(t) ==
    /\ mpc # "crashed"
    /\ tpc[t] = "p3loop"
    /\ Phase3Continues(t)
    /\ \E b \in BelowChoices({ti[t]}) :
          LET v == Load(arr2, ti[t], b) + tprev[t]
          IN /\ arr2' = Store(arr2, ti[t], v)
             /\ below' = BelowAfter({ti[t]}, ti[t], v, b)
    /\ acc' = Log(t, {ti[t]}, {ti[t]})
    /\ ti' = [ti EXCEPT ![t] = ti[t] + 1]
    /\ UNCHANGED <<NITEMS, NTHREADS, input, mpc, mi, arr1, threadargs, barr,
                   tpc, tprev, tgen, result, sem,
                   failed, nullacc>>

\* updatelocalvalues and threadfunction return
Phase3Return(t) ==
    /\ mpc # "crashed"
    /\ tpc[t] = "p3loop"
    /\ ~Phase3Continues(t)
    /\ tpc' = [tpc EXCEPT ![t] = "done"]
    /\ UNCHANGED <<NITEMS, NTHREADS, input, mpc, mi, arr1, arr2, threadargs,
                   barr, ti, tprev, tgen, acc, result, below, sem,
                   failed, nullacc>>

\* the indices the next statement of worker t touches
NextAccess(t) ==
    CASE tpc[t] = "p1" /\ Phase1Continues(t) -> {ti[t], ti[t] - 1}
      [] tpc[t] = "p2" /\ IsCoordinator(t) /\ Phase2Continues(t) ->
             {CurrFinalIndex(ti[t]), NextFinalIndex(ti[t])}
      [] tpc[t] = "p3" /\ HasPredecessor(t) -> {threadargs[t].start_index - 1}
      [] tpc[t] = "p3loop" /\ Phase3Continues(t) -> {ti[t]}
      [] tpc[t] = "c2add" ->
             {threadargs[t].end_index, threadargs[t].start_index - 1}
      [] OTHER -> {}

\* the index the next statement of worker t stores to
NextWrite(t) ==
    CASE tpc[t] = "p1" /\ Phase1Continues(t) -> {ti[t]}
      [] tpc[t] = "p2" /\ IsCoordinator(t) /\ Phase2Continues(t) ->
             {NextFinalIndex(ti[t])}
      [] tpc[t] = "p3loop" /\ Phase3Continues(t) -> {ti[t]}
      [] tpc[t] = "c2add" -> {threadargs[t].end_index}
      [] OTHER -> {}

\* an access outside the array may also end the process (SIGSEGV)
Segfault(t) ==
    /\ mpc # "crashed"
    /\ \E i \in NextAccess(t) : ~InBounds(i)
    /\ acc' = Log(t, NextAccess(t), {})
    /\ mpc' = "crashed"
    /\ UNCHANGED <<NITEMS, NTHREADS, input, mi, arr1, arr2, threadargs, barr,
                   tpc, ti, tprev, tgen, result, below, sem,
                   failed, nullacc>>

---------------------------------------------------------------------------
Main ==
    \/ MainReject
    \/ MainAlloc
    \/ MainSequential
    \/ ParInit
    \/ ParCreate
    \/ ParCreateDone
    \/ ParJoin
    \/ ParReturn
    \/ MainCheckResult

Next ==
    \/ Main
    \/ \E t \in Threads : Phase1Step(t)
    \/ \E t \in Threads : BarrierArriveA(t)
    \/ \E t \in Threads : BarrierRelease(t)
    \/ \E t \in Threads : Phase2Step(t)
    \/ \E t \in Threads : BarrierArriveB(t)
    \/ \E t \in Threads : Phase3Skip(t)
    \/ \E t \in Threads : Phase3Read(t)
    \/ \E t \in Threads : Phase3Step(t)
    \/ \E t \in Threads : Phase3Return(t)
    \/ \E t \in Threads : Segfault(t)

Spec == Init /\ [][Next]_vars

\* one worker thread's steps
Worker(t) ==
    /\ t \in Threads
    /\ \/ Phase1Step(t)
       \/ BarrierArriveA(t)
       \/ BarrierRelease(t)
       \/ Phase2Step(t)
       \/ BarrierArriveB(t)
       \/ Phase3Skip(t)
       \/ Phase3Read(t)
       \/ Phase3Step(t)
       \/ Phase3Return(t)
       \/ Segfault(t)

\* The scheduler runs every thread that can run: the main thread and each
\* created worker keep taking steps while they have one to take.
\* No thread's control flow reads the array, so the fair runs are explored
\* from the inputs that repeat one value.
InitUniform == Init /\ \E v \in Values : \A i \in DOMAIN input : input[i] = v

FairSpec ==
    /\ InitUniform
    /\ [][Next]_vars
    /\ WF_vars(Main)
    /\ \A t \in 0 .. (MaxW - 1) : WF_vars(Worker(t))

---------------------------------------------------------------------------
(* The program when malloc may return NULL.  No malloc result is tested.   *)

\* lines 212-217 when a malloc returns NULL: the first store of the fill
\* loop (arr1[0] = arr2[0] = rand() % 5) goes through the null pointer
MainAllocFail ==
    /\ mpc = "check"
    /\ ~ConfigTooLarge
    /\ failed' \in {"arr1", "arr2"}
    /\ nullacc' = TRUE
    /\ mpc' = "crashed"
    /\ UNCHANGED <<NITEMS, NTHREADS, input, mi, arr1, arr2, threadargs, barr,
                   tpc, ti, tprev, tgen, acc, result, below, sem>>

\* lines 171-188 when the malloc of threadargs returns NULL: the packing
\* loop's first store (threadargs[0].id = 0) goes through the null pointer
ParInitFailArgs ==
    /\ mpc = "par_init"
    /\ barr' = [threshold |-> BarrierCount, count |-> 0, gen |-> 0]
    /\ failed' = "threadargs"
    /\ nullacc' = TRUE
    /\ mpc' = "crashed"
    /\ UNCHANGED <<NITEMS, NTHREADS, input, mi, arr1, arr2, threadargs,
                   tpc, ti, tprev, tgen, acc, result, below, sem>>

\* lines 171-188 when the malloc of thread_array returns NULL: the packing
\* loop does not use thread_array and completes
ParInitFailThreads ==
    /\ mpc = "par_init"
    /\ barr' = [threshold |-> BarrierCount, count |-> 0, gen |-> 0]
    /\ threadargs' = PackArgs
    /\ mi' = 0
    /\ failed' = "thread_array"
    /\ mpc' = "create"
    /\ UNCHANGED <<NITEMS, NTHREADS, input, arr1, arr2,
                   tpc, ti, tprev, tgen, acc, result, below, sem, nullacc>>

\* line 192 with thread_array = NULL: pthread_create stores the new
\* thread's id through &thread_array[0].  The library either stores before
\* it starts the thread, or starts worker 0 first and stores afterwards.
ParCreateNull ==
    /\ mpc = "create"
    /\ failed = "thread_array"
    /\ \/ /\ nullacc' = TRUE
          /\ mpc' = "crashed"
          /\ UNCHANGED <<tpc, ti>>
       \/ /\ tpc' = [tpc EXCEPT ![0] = "p1"]
          /\ ti' = [ti EXCEPT ![0] = threadargs[0].start_index + 1]
          /\ mpc' = "create_store"
          /\ UNCHANGED nullacc
    /\ UNCHANGED <<NITEMS, NTHREADS, input, mi, arr1, arr2, threadargs, barr,
                   tprev, tgen, acc, result, below, sem, failed>>

\* the store of the thread id through the null pointer, worker 0 running
ParCreateStore ==
    /\ mpc = "create_store"
    /\ nullacc' = TRUE
    /\ mpc' = "crashed"
    /\ UNCHANGED <<NITEMS, NTHREADS, input, mi, arr1, arr2, threadargs, barr,
                   tpc, ti, tprev, tgen, acc, result, below, sem, failed>>

AllocNext ==
    \/ Next
    \/ MainAllocFail
    \/ ParInitFailArgs
    \/ ParInitFailThreads
    \/ ParCreateNull
    \/ ParCreateStore

AllocSpec == Init /\ [][AllocNext]_vars

---------------------------------------------------------------------------
(* The chained-handoff variant of Phase 2.  Its code is not in the sources *)
(* (the header comment of the second file describes it); it is taken from  *)
(* the specification: after the first barrier worker 0 posts its semaphore *)
(* at once; worker i > 0 waits on worker i-1's semaphore, adds worker      *)
(* i-1's final element into its own and posts its own semaphore.  There is *)
(* no second barrier: Phase 3 follows the post.                            *)

\* worker 0 has no predecessor: sem_post(&sem[0])
ChainFirst(t) ==
    /\ mpc # "crashed"
    /\ tpc[t] = "p2"
    /\ threadargs[t].id = 0
    /\ sem' = [sem EXCEPT ![t] = sem[t] + 1]
    /\ tpc' = [tpc EXCEPT ![t] = "p3"]
    /\ UNCHANGED <<NITEMS, NTHREADS, input, mpc, mi, arr1, arr2, threadargs,
                   barr, ti, tprev, tgen, below, acc, result,
                   failed, nullacc>>

\* sem_wait(&sem[id-1]): returns once the predecessor has posted
ChainWait(t) ==
    /\ mpc # "crashed"
    /\ tpc[t] = "p2"
    /\ threadargs[t].id # 0
    /\ sem[t - 1] > 0
    /\ sem' = [sem EXCEPT ![t - 1] = sem[t - 1] - 1]
    /\ tpc' = [tpc EXCEPT ![t] = "c2add"]
    /\ UNCHANGED <<NITEMS, NTHREADS, input, mpc, mi, arr1, arr2, threadargs,
                   barr, ti, tprev, tgen, below, acc, result,
                   failed, nullacc>>

\* faulty variant: the predecessor's first element is taken for its last
ChainCarryIndex_First(t) == threadargs[t - 1].start_index

\* the element the carry is read from: the predecessor's final element
ChainCarryIndex(t) == threadargs[t].start_index - 1

\* data[end_index] += data[start_index - 1]
ChainAdd(t) ==
    /\ mpc # "crashed"
    /\ tpc[t] = "c2add"
    /\ LET curr == ChainCarryIndex(t)
           next == threadargs[t].end_index
       IN /\ \E b \in BelowChoices({curr, next}) :
                LET v == Load(arr2, next, b) + Load(arr2, curr, b)
                IN /\ arr2' = Store(arr2, next, v)
                   /\ below' = BelowAfter({curr, next}, next, v, b)
          /\ acc' = Log(t, {curr, next}, {next})
    /\ tpc' = [tpc EXCEPT ![t] = "c2post"]
    /\ UNCHANGED <<NITEMS, NTHREADS, input, mpc, mi, arr1, threadargs, barr,
                   ti, tprev, tgen, sem, result,
                   failed, nullacc>>

\* sem_post(&sem[id]): the handoff to the successor
ChainPost(t) ==
    /\ mpc # "crashed"
    /\ tpc[t] = "c2post"
    /\ sem' = [sem EXCEPT ![t] = sem[t] + 1]
    /\ tpc' = [tpc EXCEPT ![t] = "p3"]
    /\ UNCHANGED <<NITEMS, NTHREADS, input, mpc, mi, arr1, arr2, threadargs,
                   barr, ti, tprev, tgen, below, acc, result,
                   failed, nullacc>>

ChainNext ==
    \/ Main
    \/ \E t \in Threads : Phase1Step(t)
    \/ \E t \in Threads : BarrierArriveA(t)
    \/ \E t \in Threads : BarrierRelease(t)
    \/ \E t \in Threads : ChainFirst(t)
    \/ \E t \in Threads : ChainWait(t)
    \/ \E t \in Threads : ChainAdd(t)
    \/ \E t \in Threads : ChainPost(t)
    \/ \E t \in Threads : Phase3Skip(t)
    \/ \E t \in Threads : Phase3Read(t)
    \/ \E t \in Threads : Phase3Step(t)
    \/ \E t \in Threads : Phase3Return(t)
    \/ \E t \in Threads : Segfault(t)

ChainSpec == Init /\ [][ChainNext]_vars

---------------------------------------------------------------------------
(* The single-coordinator strategy as a function of the input: the three   *)
(* phases run one after the other, each worker's part in turn.             *)

\* threadprefixsum(data, start_index, end_index) from loop index i on
RECURSIVE ScanChunk(_, _, _)
ScanChunk(data, i, end) ==
    IF i < end + 1
    THEN ScanChunk([data EXCEPT ![i] = data[i] + data[i - 1]], i + 1, end)
    ELSE data

\* Phase 1 of the workers t, t+1, ..
RECURSIVE AllPhase1(_, _)
AllPhase1(data, t) ==
    IF t < NTHREADS
    THEN AllPhase1(ScanChunk(data, StartIndex(t) + 1, EndIndex(t)), t + 1)
    ELSE data

\* finalelementprefix(data) from loop index i on
RECURSIVE FinalElements(_, _)
FinalElements(data, i) ==
    IF i < NTHREADS - 1
    THEN FinalElements(
             [data EXCEPT ![NextFinalIndex(i)] =
                  data[NextFinalIndex(i)] + data[CurrFinalIndex(i)]], i + 1)
    ELSE data

\* updatelocalvalues' loop from index i on
RECURSIVE UpdateChunk(_, _, _, _)
UpdateChunk(data, i, end, prev) ==
    IF i < end
    THEN UpdateChunk([data EXCEPT ![i] = data[i] + prev], i + 1, end, prev)
    ELSE data

\* Phase 3 of the workers t, t+1, ..
RECURSIVE AllPhase3(_, _)
AllPhase3(data, t) ==
    IF t < NTHREADS
    THEN AllPhase3(
             IF t # 0
             THEN UpdateChunk(data, StartIndex(t), EndIndex(t),
                              data[StartIndex(t) - 1])
             ELSE data, t + 1)
    ELSE data

CoordinatorResult ==
    AllPhase3(FinalElements(AllPhase1([i \in Indices |-> input[i]], 0), 0), 0)

---------------------------------------------------------------------------
(* The claims *)

\* a configuration the program is meant for: 1 <= W <= N, within main's limits
ValidConfig ==
    /\ 1 <= NTHREADS
    /\ NTHREADS <= NITEMS
    /\ NITEMS <= MAX_ITEMS
    /\ NTHREADS <= MAX_THREADS

\* parallelprefixsum has returned to main
Returned == mpc \in {"returned", "exit_ok"}

\* the indices of worker t's chunk, as handed to it in its arg_pack
Chunk(t) == threadargs[t].start_index .. threadargs[t].end_index

\* C1: for 1 <= W <= N, whatever the interleaving, once parallelprefixsum has
\* returned the array holds at every index i the sum of the original elements
\* 0..i, which is what sequentialprefixsum left in the other copy.
C1_ParallelEqualsSequential ==
    (ValidConfig /\ Returned) =>
        /\ \A i \in Indices : arr2[i] = SumRange(input, 0, i)
        /\ arr2 = arr1
        /\ checkresult(arr1, arr2, NITEMS) = 1

C1_Witness ==
    /\ Returned
    /\ NTHREADS = 3
    /\ NITEMS = 4
    /\ \A i \in Indices : input[i] = 1
    /\ arr2[3] = 4

\* C2: for 1 <= W <= N the chunks handed to the workers are pairwise disjoint,
\* cover 0 .. N-1 without a gap, all but the last hold floor(N/W) indices and
\* the last holds floor(N/W) + (N mod W).
C2_ChunksPartition ==
    (ValidConfig /\ threadargs # << >>) =>
        /\ \A t, u \in Threads : t # u => Chunk(t) \cap Chunk(u) = {}
        /\ UNION {Chunk(t) : t \in Threads} = Indices
        /\ \A t \in Threads :
              /\ threadargs[t].start_index = t * (NITEMS \div NTHREADS)
              /\ t # NTHREADS - 1 =>
                    Cardinality(Chunk(t)) = NITEMS \div NTHREADS
              /\ t = NTHREADS - 1 =>
                    Cardinality(Chunk(t)) = (NITEMS \div NTHREADS) + (NITEMS % NTHREADS)
              /\ t > 0 => threadargs[t].start_index = threadargs[t - 1].end_index + 1

C2_Witness ==
    /\ threadargs # << >>
    /\ NTHREADS = 3
    /\ NITEMS = 4
    /\ Chunk(2) = {2, 3}


\* worker u has finished threadprefixsum (its Phase 1 loop has ended)
Phase1Complete(u) == tpc[u] # "none" /\ ~(tpc[u] = "p1" /\ Phase1Continues(u))

\* worker 0 has finished finalelementprefix (the whole Phase 2 loop)
Phase2Complete ==
    /\ Epoch(tpc[0]) >= 1
    /\ ~(tpc[0] = "p2" /\ Phase2Continues(0))

\* C3: synchronisation point A.  In every interleaving, a worker that has got
\* past the first barrier wait (and so may run Phase 2), or any Phase 2 access
\* already made, is found only when every one of the W workers has finished
\* its Phase 1 scan.
C3_SyncPointA ==
    \A t \in Threads :
        (Epoch(tpc[t]) >= 1 \/ \E r \in BagToSet(acc) : r[2] >= 1) =>
            \A u \in Threads : Phase1Complete(u)

C3_Witness ==
    /\ NTHREADS = 3
    /\ NITEMS = 4
    /\ tpc[0] = "p2"
    /\ ti[0] = 1
    /\ <<0, 1, 1, "w">> \in BagToSet(acc)

\* C4: synchronisation point B.  In every interleaving, a worker that has got
\* past the second barrier wait (and so may run Phase 3), or any Phase 3
\* access already made, the read of the predecessor's final element included,
\* is found only when worker 0 has finished the whole Phase 2 loop.
C4_SyncPointB ==
    \A t \in Threads :
        (Epoch(tpc[t]) >= 2 \/ \E r \in BagToSet(acc) : r[2] >= 2) =>
            Phase2Complete

C4_Witness ==
    /\ NTHREADS = 3
    /\ NITEMS = 4
    /\ tpc[2] = "p3loop"
    /\ tpc[0] = "waitB"
    /\ <<2, 2, 1, "r">> \in BagToSet(acc)


\* Two logged accesses conflict when they are by different workers, to the
\* same element, and one is a store; for a store r these are the records
\* <<u, epoch, r[3], kind>> of the other workers u.

\* C5: data-race freedom for 1 <= W <= N.  No state lets two different
\* workers make their next access to the same element with one of them
\* storing; no two conflicting accesses were ever made between the same two
\* barrier rendezvous; and the only stores to an element outside the storing
\* worker's own chunk are worker 0's Phase 2 stores to the final element of
\* another chunk, made when that chunk's owner has finished Phase 1.
C5_DataRaceFree ==
    (ValidConfig /\ threadargs # << >>) =>
        /\ \A t, u \in Threads :
              t # u => NextWrite(t) \cap NextAccess(u) = {}
        /\ LET made == BagToSet(acc)
           IN \A r \in made :
                  r[4] = "w" =>
                      \A u \in Threads \ {r[1]} :
                          /\ <<u, r[2], r[3], "r">> \notin made
                          /\ <<u, r[2], r[3], "w">> \notin made
        /\ \A r \in BagToSet(acc) :
              (r[4] = "w" /\ r[3] \notin Chunk(r[1])) =>
                  /\ r[1] = 0
                  /\ r[2] = 1
                  /\ \E u \in Threads \ {0} :
                        /\ r[3] = threadargs[u].end_index
                        /\ Phase1Complete(u)

C5_Witness ==
    /\ NTHREADS = 3
    /\ NITEMS = 4
    /\ \A t \in Threads : tpc[t] = "done"
    /\ <<2, 0, 3, "w">> \in BagToSet(acc)
    /\ <<0, 1, 3, "w">> \in BagToSet(acc)
    /\ <<2, 2, 2, "w">> \in BagToSet(acc)


\* every worker has returned from threadfunction
AllDone == \A t \in Threads : tpc[t] = "done"

\* C6: termination for 1 <= W <= N.  Under fair scheduling of the main thread
\* and the workers, every worker gets through both barrier waits and reaches
\* its terminal position, parallelprefixsum returns and main finishes; in
\* particular no worker stays blocked at a barrier for ever.
C6_Termination == ValidConfig ~> (AllDone /\ mpc = "exit_ok")

C6_Witness ==
    /\ NTHREADS = 3
    /\ NITEMS = 4
    /\ AllDone
    /\ barr.gen = 2
    /\ mpc = "exit_ok"


\* the workers pthread_create has started
Created == {t \in Threads : tpc[t] # "none"}

\* C7: parallelprefixsum blocks.  Once its creation loop is over exactly W
\* workers have been created, and it has not returned to main (so main has
\* not compared the arrays) while one of them has yet to return.
C7_Blocking ==
    /\ mpc \in {"join", "returned", "exit_ok"} => Cardinality(Created) = NTHREADS
    /\ Returned => AllDone
    /\ result # "none" => AllDone

C7_Witness ==
    /\ NTHREADS = 3
    /\ NITEMS = 4
    /\ mpc = "returned"
    /\ AllDone

\* C8: a worker count above the item count is rejected before launch: no
\* chunk of zero or negative size is built, no worker is created and the
\* array is not touched.
C8_InvalidWorkerCountRejected ==
    (NTHREADS > NITEMS) =>
        /\ mpc \notin {"create", "join", "returned", "exit_ok", "crashed"}
        /\ threadargs # << >> =>
              \A t \in Threads :
                  threadargs[t].end_index >= threadargs[t].start_index
        /\ Created = {}
        /\ acc = EmptyBag

\* C9: when NITEMS > 10,000,000 or NTHREADS > 32 main leaves with a failure
\* status before anything else: nothing is allocated, no scan step is made,
\* no argument pack is built, no worker is created, no result is reported.
C9_FailFast ==
    (NITEMS > MAX_ITEMS \/ NTHREADS > MAX_THREADS) =>
        /\ mpc \in {"check", "exit_failure"}
        /\ arr1 = << >>
        /\ arr2 = << >>
        /\ threadargs = << >>
        /\ Created = {}
        /\ acc = EmptyBag
        /\ result = "none"

C9_Witness ==
    /\ mpc = "exit_failure"
    /\ NTHREADS > MAX_THREADS
    /\ NITEMS <= MAX_ITEMS

\* C10: with W = 1 there is one chunk, 0 .. N-1; Phase 2 and Phase 3 store
\* nothing; and from the end of Phase 1 on the array equals the sequential
\* prefix sum of the input.
C10_SingleWorker ==
    (NTHREADS = 1 /\ threadargs # << >>) =>
        /\ Chunk(0) = Indices
        /\ \A r \in BagToSet(acc) : r[4] = "w" => r[2] = 0
        /\ Phase1Complete(0) =>
              /\ arr2 = arr1
              /\ \A i \in Indices : arr2[i] = SumRange(input, 0, i)

C10_Witness ==
    /\ NTHREADS = 1
    /\ NITEMS = 4
    /\ tpc[0] = "done"
    /\ \A i \in Indices : input[i] = 1
    /\ arr2[3] = 4


\* C11: with N = W every chunk holds exactly one element, Phase 1 makes no
\* array access in any worker (the array still is the input while no worker
\* has got past the first barrier), and once all workers have returned the
\* array equals the sequential prefix sum of the input.
C11_OneElementChunks ==
    (ValidConfig /\ NTHREADS = NITEMS /\ threadargs # << >>) =>
        /\ \A t \in Threads : Chunk(t) = {t}
        /\ \A r \in BagToSet(acc) : r[2] >= 1
        /\ (\A t \in Threads : Epoch(tpc[t]) = 0) =>
              \A i \in Indices : arr2[i] = input[i]
        /\ AllDone =>
              /\ arr2 = arr1
              /\ \A i \in Indices : arr2[i] = SumRange(input, 0, i)

C11_Witness ==
    /\ NTHREADS = 3
    /\ NITEMS = 3
    /\ AllDone
    /\ \A i \in Indices : input[i] = 1
    /\ arr2[2] = 3
    /\ <<0, 1, 2, "w">> \in BagToSet(acc)


\* C12: the chained-handoff strategy ends, for every input, every W with
\* 1 <= W <= N and every interleaving, with the same array as the
\* single-coordinator strategy (CoordinatorResult, which C15 shows to be the
\* barrier-synchronised program's final array).
\* Each semaphore is posted once and taken at most once, and a worker
\* adds its carry only after its predecessor's final element is global.
C12_ChainEqualsCoordinator ==
    ValidConfig =>
        /\ \A t \in Threads : sem[t] \in 0..1
        /\ \A t \in Threads :
               (threadargs # << >> /\ tpc[t] = "c2add") =>
                   /\ sem[t - 1] = 0
                   /\ arr2[threadargs[t].start_index - 1]
                          = SumRange(input, 0, threadargs[t].start_index - 1)
        /\ Returned => arr2 = CoordinatorResult

C12_Witness ==
    /\ NTHREADS = 3
    /\ NITEMS = 4
    /\ Returned
    /\ \A i \in Indices : input[i] = 1
    /\ arr2[3] = 4
    /\ sem[2] = 1
    /\ sem[0] = 0


\* C13: once an allocation has returned no memory the program reports the
\* error and stops: no access through the null pointer, no scan step, no
\* thread is created.
C13_AllocFailureSurfaced ==
    failed # "none" =>
        /\ nullacc = FALSE
        /\ mpc = "exit_failure"
        /\ \A t \in Threads : tpc[t] = "none"


\* the array after Phase 1 of every worker and the whole of Phase 2
AfterPhase2 == FinalElements(AllPhase1([i \in Indices |-> input[i]], 0), 0)

\* C14: Phase 2 postcondition for 1 <= W <= N.  While worker 0 runs
\* finalelementprefix at boundary i, the final elements of the chunks 0..i
\* hold the sum of all original elements up to them and the later ones still
\* hold their chunk's own sum (the boundaries are taken in increasing order,
\* each adding the final element of chunk i into that of chunk i+1); once the
\* loop is over the final element of every chunk k holds the sum of the
\* original elements 0 .. end of chunk k.
C14_Phase2Postcondition ==
    (ValidConfig /\ threadargs # << >>) =>
        /\ tpc[0] = "p2" =>
              /\ ti[0] \in 0 .. (NTHREADS - 1)
              /\ \A k \in Threads :
                    arr2[threadargs[k].end_index] =
                        IF k <= ti[0]
                        THEN SumRange(input, 0, threadargs[k].end_index)
                        ELSE SumRange(input, threadargs[k].start_index,
                                      threadargs[k].end_index)
              /\ Phase2Continues(0) =>
                    /\ NextAccess(0) = {threadargs[ti[0]].end_index,
                                        threadargs[ti[0] + 1].end_index}
                    /\ NextWrite(0) = {threadargs[ti[0] + 1].end_index}
        /\ Phase2Complete =>
              \A k \in Threads :
                  arr2[threadargs[k].end_index] =
                      SumRange(input, 0, threadargs[k].end_index)
        /\ (Phase2Complete /\ \A t \in Threads : Epoch(tpc[t]) = 1) =>
              arr2 = AfterPhase2

C14_Witness ==
    /\ NTHREADS = 3
    /\ NITEMS = 4
    /\ \A i \in Indices : input[i] = 1
    /\ tpc[0] = "waitB"
    /\ tpc[1] = "p2"
    /\ arr2 = [i \in Indices |-> CASE i = 0 -> 1 [] i = 1 -> 2
                                     [] i = 2 -> 1 [] OTHER -> 4]
    /\ <<0, 1, 1, "w">> \in BagToSet(acc)
    /\ <<0, 1, 3, "w">> \in BagToSet(acc)


\* C15: Phase 3 effect for 1 <= W <= N.  Worker 0 makes no access after the
\* second barrier.  Worker i > 0 reads index start_i - 1 and stores only to
\* the elements of its chunk other than the last, each exactly once; the
\* carry it holds is, and stays, the predecessor's final element as Phase 2
\* left it; the elements it has updated hold the sum of the original
\* elements from index 0, the others still their Phase 1 value; and when all
\* workers are done the array is Phase 3 applied to the array Phase 2 left.
C15_Phase3Effect ==
    (ValidConfig /\ threadargs # << >>) =>
        /\ \A r \in BagToSet(acc) :
              r[2] = 2 =>
                  /\ r[1] # 0
                  /\ r[3] \in (threadargs[r[1]].start_index - 1)
                                 .. (threadargs[r[1]].end_index - 1)
                  /\ r[4] = "w" =>
                        /\ r[3] >= threadargs[r[1]].start_index
                        /\ \A k \in Threads : r[3] # threadargs[k].end_index
                        /\ CopiesIn(r, acc) = 1
        /\ \A t \in Threads :
              /\ Epoch(tpc[t]) = 2 =>
                    \A k \in Threads : threadargs[k].end_index \notin NextWrite(t)
              /\ (t # 0 /\ tpc[t] \in {"p3loop", "done"}) =>
                    /\ tprev[t] = arr2[threadargs[t].start_index - 1]
                    /\ tprev[t] = SumRange(input, 0, threadargs[t].start_index - 1)
              /\ (t # 0 /\ Epoch(tpc[t]) = 2) =>
                    \A j \in threadargs[t].start_index
                                .. (threadargs[t].end_index - 1) :
                        arr2[j] =
                            IF tpc[t] = "done" \/ (tpc[t] = "p3loop" /\ j < ti[t])
                            THEN SumRange(input, 0, j)
                            ELSE SumRange(input, threadargs[t].start_index, j)
        /\ AllDone => arr2 = CoordinatorResult

C15_Witness ==
    /\ NTHREADS = 2
    /\ NITEMS = 4
    /\ \A i \in Indices : input[i] = 1
    /\ tpc[0] = "done"
    /\ tpc[1] = "p3loop"
    /\ ti[1] = 3
    /\ tprev[1] = 2
    /\ arr2 = [i \in Indices |-> i + 1]
    /\ <<1, 2, 2, "w">> \in BagToSet(acc)
    /\ <<1, 2, 1, "r">> \in BagToSet(acc)


\* C16: Phase 1 postcondition and frame for 1 <= W <= N.  While worker t is
\* in threadprefixsum at loop index i, the elements of its chunk below i hold
\* the sum of the original elements from start_t up to them and the others
\* their original value; when it has finished (and until Phase 2 starts)
\* every element j of its chunk holds the sum of the original elements
\* start_t .. j.  Its Phase 1 accesses stay inside its chunk and its stores
\* fall on start_t + 1 .. end_t only, so the first element of its chunk and
\* every other chunk are left as they were.
C16_Phase1Postcondition ==
    (ValidConfig /\ threadargs # << >>) =>
        /\ \A r \in BagToSet(acc) :
              r[2] = 0 =>
                  /\ r[3] \in Chunk(r[1])
                  /\ r[4] = "w" => r[3] > threadargs[r[1]].start_index
        /\ \A t \in Threads :
              /\ tpc[t] = "p1" =>
                    /\ NextAccess(t) \subseteq Chunk(t)
                    /\ threadargs[t].start_index \notin NextWrite(t)
                    /\ ti[t] \in (threadargs[t].start_index + 1)
                                    .. (threadargs[t].end_index + 1)
              /\ (\A u \in Threads : Epoch(tpc[u]) = 0) =>
                    \A j \in Chunk(t) :
                        arr2[j] =
                            IF tpc[t] = "waitA" \/ (tpc[t] = "p1" /\ j < ti[t])
                            THEN SumRange(input, threadargs[t].start_index, j)
                            ELSE input[j]

C16_Witness ==
    /\ NTHREADS = 2
    /\ NITEMS = 4
    /\ \A i \in Indices : input[i] = 1
    /\ tpc[0] = "waitA"
    /\ tpc[1] = "p1"
    /\ ti[1] = 3
    /\ arr2 = [i \in Indices |-> IF i = 3 THEN 1 ELSE (i % 2) + 1]
    /\ <<0, 0, 1, "w">> \in BagToSet(acc)
    /\ <<0, 0, 0, "w">> \notin BagToSet(acc)


\* the final elements of the chunks 1 .. W-1
LaterFinals == {threadargs[k].end_index : k \in Threads \ {0}}

\* C17: Phase 2 frame for 1 <= W <= N.  Every access made between the two
\* barrier releases is worker 0's; its stores fall on the final elements of
\* the chunks 1 .. W-1, each once (all of them once the loop is over); a
\* worker other than 0 that waits for the second barrier has no array access
\* to make; and every element that is not one of these finals keeps its
\* Phase 1 value until its owner starts Phase 3.
C17_Phase2Frame ==
    (ValidConfig /\ threadargs # << >>) =>
      LET finals == LaterFinals IN
        /\ \A r \in BagToSet(acc) :
              r[2] = 1 =>
                  /\ r[1] = 0
                  /\ r[3] \in finals \cup {threadargs[0].end_index}
                  /\ r[4] = "w" => (r[3] \in finals /\ CopiesIn(r, acc) = 1)
        /\ \A t \in Threads :
              (Epoch(tpc[t]) = 1 /\ t # 0) =>
                  (NextAccess(t) = {} /\ NextWrite(t) = {})
        /\ tpc[0] = "p2" => NextWrite(0) \subseteq finals
        /\ Phase2Complete =>
              {r[3] : r \in {q \in BagToSet(acc) : q[2] = 1 /\ q[4] = "w"}}
                  = finals
        /\ (\E t \in Threads : Epoch(tpc[t]) >= 1) =>
              \A t \in Threads :
                  Epoch(tpc[t]) <= 1 =>
                      \A j \in Chunk(t) \ finals :
                          arr2[j] = SumRange(input, threadargs[t].start_index, j)

C17_Witness ==
    /\ NTHREADS = 3
    /\ NITEMS = 4
    /\ \A i \in Indices : input[i] = 1
    /\ tpc[0] = "p2"
    /\ ti[0] = 1
    /\ tpc[1] = "waitB"
    /\ tpc[2] = "p2"
    /\ arr2[1] = 2
    /\ arr2[2] = 1
    /\ arr2[3] = 2
    /\ <<0, 1, 1, "w">> \in BagToSet(acc)


\* the workers blocked in the barrier's current generation
Waiting == {t \in Threads : tpc[t] \in {"waitA", "waitB"} /\ tgen[t] = barr.gen}

\* C18: barrier reuse.  The one barrier, initialised with count W, serves
\* both rendezvous: its counter is the number of workers blocked in the
\* current generation and stays below W (the W-th arrival resets it and
\* starts the next generation); a worker blocked at the first wait belongs
\* to generation 0 and one blocked at the second to generation 1; nobody is
\* past the first wait before all W workers have arrived at it, and nobody
\* is past the second before all W have returned from the first and arrived
\* at the second.
C18_BarrierReuse ==
    (threadargs # << >> /\ failed = "none") =>
        /\ barr.threshold = NTHREADS
        /\ barr.count \in 0 .. (NTHREADS - 1)
        /\ barr.count = Cardinality(Waiting)
        /\ barr.gen \in 0 .. 2
        /\ \A t \in Threads :
              /\ tpc[t] = "waitA" => tgen[t] = 0
              /\ tpc[t] = "waitB" => tgen[t] = 1
              /\ Epoch(tpc[t]) >= 1 =>
                    /\ barr.gen >= 1
                    /\ \A u \in Threads : tpc[u] \notin {"none", "p1"}
              /\ Epoch(tpc[t]) = 2 =>
                    /\ barr.gen = 2
                    /\ \A u \in Threads : Epoch(tpc[u]) >= 1
                    /\ \A u \in Threads : tpc[u] \notin {"waitA", "p2"}
        /\ barr.gen = 0 => \A t \in Threads : Epoch(tpc[t]) = 0
        /\ barr.gen = 1 => \A t \in Threads : tpc[t] \in {"waitA", "p2", "waitB"}
        /\ barr.gen = 2 => \A t \in Threads : tpc[t] \in {"waitB", "p3", "p3loop", "done"}

C18_Witness ==
    /\ NTHREADS = 3
    /\ barr = [threshold |-> 3, count |-> 1, gen |-> 1]
    /\ tpc[0] = "waitB"
    /\ tgen[0] = 1
    /\ tpc[1] = "waitA"
    /\ tgen[1] = 0
    /\ tpc[2] = "p2"


\* C19: for 1 <= W <= N the indices finalelementprefix computes for boundary
\* i, curr_final_index and next_final_index (the remainder added only when
\* i = W-2), are the end_index of chunk i and of chunk i+1 in the argument
\* packs parallelprefixsum fills, and so the ones worker 0 is about to use.
C19_FinalIndicesAgree ==
    ValidConfig =>
      LET packed == PackArgs IN
        /\ \A i \in 0 .. (NTHREADS - 2) :
              /\ CurrFinalIndex(i) = packed[i].end_index
              /\ NextFinalIndex(i) = packed[i + 1].end_index
              /\ CurrFinalIndex(i) = (i + 1) * (NITEMS \div NTHREADS) - 1
              /\ NextFinalIndex(i) - CurrFinalIndex(i) =
                    (NITEMS \div NTHREADS)
                        + (IF i = NTHREADS - 2 THEN NITEMS % NTHREADS ELSE 0)
        /\ threadargs # << >> =>
              /\ threadargs = packed
              /\ (tpc[0] = "p2" /\ Phase2Continues(0)) =>
                    NextAccess(0) = {threadargs[ti[0]].end_index,
                                     threadargs[ti[0] + 1].end_index}

C19_Witness ==
    /\ NTHREADS = 3
    /\ NITEMS = 4
    /\ REMAINDER_OF_DIV = 1
    /\ tpc[0] = "p2"
    /\ ti[0] = 1
    /\ NextFinalIndex(1) = 3
    /\ threadargs[2].end_index = 3
    /\ NextAccess(0) = {1, 3}


\* C20: for 1 <= W <= N every array index a worker reads or writes, in any
\* phase, lies in 0 .. N-1: every access made so far and every access a
\* worker is about to make is in bounds (the Phase 2 indices and the Phase 3
\* read of start_i - 1 among them), the word in front of the array is never
\* touched and no worker faults.
C20_AccessesInBounds ==
    ValidConfig =>
        /\ \A r \in BagToSet(acc) : InBounds(r[3])
        /\ threadargs # << >> =>
              \A t \in Threads :
                  /\ NextAccess(t) \subseteq Indices
                  /\ ~Outside(NextAccess(t))
                  /\ (tpc[t] = "p3" /\ HasPredecessor(t)) =>
                        InBounds(threadargs[t].start_index - 1)
                  /\ threadargs[t].start_index \in Indices
                  /\ threadargs[t].end_index \in Indices
        /\ below = << >>
        /\ mpc # "crashed"

C20_Witness ==
    /\ NTHREADS = 3
    /\ NITEMS = 3
    /\ AllDone
    /\ below = << >>
    /\ <<1, 2, 0, "r">> \in BagToSet(acc)
    /\ <<0, 1, 2, "w">> \in BagToSet(acc)
    /\ <<2, 2, 1, "r">> \in BagToSet(acc)


\* the largest value rand() % 5 hands out
MaxInput == RAND_MOD - 1

\* every cell of data from index i on lies between its original value and
\* the sum of the original elements up to it, that sum is at most
\* (i+1) * MaxInput, and no cell exceeds the total; sum is the sum of the
\* original elements below i and top the largest cell below i
RECURSIVE WithinPrefix(_, _, _, _)
WithinPrefix(data, i, sum, top) ==
    IF i < NITEMS
    THEN /\ input[i] <= data[i]
         /\ data[i] <= sum + input[i]
         /\ sum + input[i] <= (i + 1) * MaxInput
         /\ WithinPrefix(data, i + 1, sum + input[i],
                         IF data[i] > top THEN data[i] ELSE top)
    ELSE top <= sum

\* C21: the inputs are in 0..4, and for 1 <= W <= N every cell of either
\* array holds, in every reachable state, a value between its original value
\* and its final prefix sum, which is at most (i+1) * 4, and no cell exceeds
\* the final total (every sum the program computes is stored in a cell, so
\* this bounds every addition); the carry a worker holds is bounded too.
\* The largest total an accepted configuration can have, 10,000,000 * 4,
\* fits a 32-bit signed int.
C21_ValuesBounded ==
    ValidConfig =>
        /\ \A i \in Indices : input[i] \in 0 .. MaxInput
        /\ arr1 # << >> => WithinPrefix(arr1, 0, 0, 0)
        /\ arr2 # << >> =>
              /\ WithinPrefix(arr2, 0, 0, 0)
              /\ \A t \in Threads : tprev[t] \in 0 .. (NITEMS * MaxInput)
        /\ NITEMS * MaxInput <= MAX_ITEMS * MaxInput
        /\ MAX_ITEMS * MaxInput <= INT_MAX

C21_Witness ==
    /\ NTHREADS = 2
    /\ NITEMS = 4
    /\ \A i \in Indices : input[i] = 1
    /\ tpc[0] = "p2"
    /\ Phase2Continues(0)
    /\ arr2[3] = 2
    /\ input[3] < arr2[3]
    /\ arr2[3] < SumRange(input, 0, 3)

===========================================================================
